---------------------------- MODULE Spec2Model ----------------------------
(***************************************************************************)
(* A model of the NeuraX compute fabric:                                   *)
(*   - the job execution engine of src/server/server.py (job table, the    *)
(*     /execute and /notebook/execute submits, the background execution    *)
(*     tasks, the sandbox runs and their scratch files, the artifact       *)
(*     routes),                                                            *)
(*   - the worker registry of src/server/node_registry.py,                 *)
(*   - the secure-channel sessions of src/compute/compute_node.py.         *)
(*                                                                         *)
(* Python values: None is the empty sequence <<>> and a present value v is *)
(* <<v>>, so that `x == 0' and `x is None' stay different questions.       *)
(* A job dict is an object on the heap: the job table maps a job-id to an  *)
(* object, and a task that did `job = jobs[job_id]' keeps writing to the   *)
(* object it fetched even after a later submit rebinds the job-id.         *)
(***************************************************************************)
EXTENDS Integers, Sequences, FiniteSets, TLC

VARIABLES
    jobs,        \* server.py `jobs': job-id -> heap index of the job dict
    heap,        \* the job dicts, in order of creation
    tasks,       \* the background tasks started by start_background_task
    scratch,     \* scratch files that exist on disk: <<task, n>>
    containers,  \* tasks whose container / subprocess is still running
    files,       \* artifact files on disk, as normalised paths
    resp,        \* the last HTTP response of the server
    env,         \* docker_available and the local-execution policy flag
    now,         \* wall clock, in seconds
    nodes,       \* the registry's `nodes' table: node_id -> row
    swept,       \* history: node_id -> how the row last changed
    regop,       \* the last call of a registry operation and what it returned
    compute_nodes, \* server.py `compute_nodes': Socket.IO sid -> node_specs
    emitted,     \* the last Socket.IO handler of a worker and what it emitted
    lock,        \* NodeRegistry.lock: the thread that holds it, or None
    threads,     \* the threads that call the registry, and where each one is
    sessions,    \* compute node `self.sessions': session_id -> session_data
    handlers,    \* compute node: the _handle_message tasks awaiting the sandbox
    offers,      \* compute node: data channels opened so far
    channels,    \* compute node: the open data channels -> their session_id
    nodeop,      \* compute node: the last handler that ran
    logs,        \* server.py job['logs']: heap index -> the lines appended
    events,      \* the Socket.IO events emitted, by the job_id they carry
    tmp,         \* the host's /tmp: the tasks whose payload left a file there
    seen         \* task -> the payload files its sandbox held when it started

jobVars  == <<jobs, heap, tasks, scratch, containers, files, resp, env>>
sioVars  == <<compute_nodes, emitted>>
lockVars == <<lock, threads>>
regVars  == <<nodes, swept, regop, compute_nodes, emitted, lock, threads>>
nodeVars == <<sessions, handlers, offers, channels, nodeop>>
logVars  == <<logs, events>>
hostVars == <<tmp, seen>>
vars     == <<jobs, heap, tasks, scratch, containers, files, resp, env, now,
              nodes, swept, regop, compute_nodes, emitted, lock, threads,
              sessions, handlers, offers, channels, nodeop, logs, events,
              tmp, seen>>

None == <<>>
Some(v) == <<v>>

-----------------------------------------------------------------------------
(* Bounds of the model.                                                    *)

MaxSubmits == 2      \* accepted submits (jobs created) in one run
MaxTicks == 8        \* the clock stops after this many ticks
MaxOffers == 3       \* data channels opened on the compute node in one run


-----------------------------------------------------------------------------
(* Paths.  A path is the sequence of its "/"-separated components; an      *)
(* absolute path starts with the component "/".                            *)

Root == "/"
OUTPUT_FOLDER == <<"outputs">>

(* os.path.join(a, b): an absolute b discards a. *)
PathJoin(a, b) ==
    IF b # <<>> /\ b[1] = Root THEN b ELSE a \o b

(* os.path.normpath / the kernel's resolution of ".." components. *)
RECURSIVE NormOnto(_, _)
NormOnto(stack, rest) ==
    IF rest = <<>> THEN stack
    ELSE LET c == rest[1]
             r == SubSeq(rest, 2, Len(rest))
         IN  IF c = "."
             THEN NormOnto(stack, r)
             ELSE IF c = ".."
             THEN IF stack # <<>> /\ stack[Len(stack)] = Root
                  THEN NormOnto(stack, r)
                  ELSE IF stack # <<>> /\ stack[Len(stack)] # ".."
                  THEN NormOnto(SubSeq(stack, 1, Len(stack) - 1), r)
                  ELSE NormOnto(Append(stack, c), r)
             ELSE NormOnto(Append(stack, c), r)

NormPath(p) == NormOnto(<<>>, p)

(* os.path.join(app.config['OUTPUT_FOLDER'], job_id) *)
OutputDir(job_id) == PathJoin(OUTPUT_FOLDER, job_id)

(* The file a job's execution function opens for an artifact name. *)
ArtifactPath(job_id, filename) ==
    NormPath(PathJoin(OutputDir(job_id), <<filename>>))

-----------------------------------------------------------------------------
(* What running a payload does.  The payload is opaque to the engine: its  *)
(* behaviour is one of these, drawn when the sandbox is launched.          *)

Behaviours ==
    { [kind |-> "exit", rc |-> 0, out |-> TRUE,  err |-> FALSE],
      [kind |-> "exit", rc |-> 0, out |-> FALSE, err |-> FALSE],
      [kind |-> "exit", rc |-> 2, out |-> FALSE, err |-> FALSE],
      [kind |-> "exit", rc |-> 1, out |-> TRUE,  err |-> TRUE],
      [kind |-> "loop", rc |-> 0, out |-> FALSE, err |-> FALSE],
      [kind |-> "loop", rc |-> 0, out |-> TRUE,  err |-> FALSE],
      [kind |-> "badtext", rc |-> 0, out |-> FALSE, err |-> FALSE] }

(* What the host does to the engine during one execution function:         *)
(*   run_raises   subprocess.run raises (no docker binary, OSError)         *)
(*   save_raises  os.makedirs / open of the output directory raises         *)
(*   log_raises   socketio.emit raises inside add_log                       *)
Faults == {"none", "run_raises", "save_raises", "log_raises"}

(* The result of an execution function: the dict it returns (exit_code,    *)
(* stdout/stderr emptiness, output_files when the key is present), or      *)
(* raised = TRUE; and what it left behind.                                 *)
Result(rc, out, err, ofiles, wrote, leaked, cont, dockerRuns, hostRuns) ==
    [raised |-> FALSE, exit_code |-> rc, stdout |-> out, stderr |-> err,
     output_files |-> ofiles, wrote |-> wrote, leaked |-> leaked,
     container |-> cont, docker |-> dockerRuns, host |-> hostRuns]

Raised(leaked) ==
    [raised |-> TRUE, exit_code |-> 0, stdout |-> FALSE, stderr |-> FALSE,
     output_files |-> None, wrote |-> {}, leaked |-> leaked,
     container |-> FALSE, docker |-> 0, host |-> 0]

NoResult == Raised(0)

StdFiles(b) ==
    (IF b.out THEN {"stdout.txt"} ELSE {}) \cup (IF b.err THEN {"stderr.txt"} ELSE {})

StdList(b) == <<"stdout.txt">> \o (IF b.err THEN <<"stderr.txt">> ELSE <<>>)

(* The local-subprocess branch of execute_python_code: the code is written *)
(* to a scratch file and run by the host interpreter with a 60 s timeout.  *)
(* leak0 and docker0 count what the caller already leaked and launched.    *)
ExecLocal(b, fault, leak0, docker0) ==
    IF b.kind = "badtext"
    THEN \* f.write raises inside the `with': temp_file is never bound
         Result(-1, FALSE, TRUE, None, {}, leak0 + 1, FALSE, docker0, 0)
    ELSE IF fault = "run_raises" \/ fault = "log_raises"
    THEN Result(-1, FALSE, TRUE, None, {}, leak0, FALSE, docker0, 0)
    ELSE IF b.kind = "loop"
    THEN \* TimeoutExpired: subprocess.run has killed the child
         Result(-1, FALSE, TRUE, None, {}, leak0, FALSE, docker0, 1)
    ELSE IF fault = "save_raises"
    THEN Result(-1, FALSE, TRUE, None, {}, leak0, FALSE, docker0, 1)
    ELSE Result(b.rc, b.out, b.err, Some(StdList(b)), StdFiles(b),
                leak0, FALSE, docker0, 1)

(* execute_python_code(job_id, code, ephemeral) *)
execute_python_code(b, fault, e) ==
    IF e.force_local \/ ~e.docker_available
    THEN IF fault = "log_raises"
         THEN Raised(0)       \* add_log before the try block
         ELSE ExecLocal(b, fault, 0, 0)
    ELSE IF fault = "log_raises"
    THEN \* add_log raises in the docker path and again in its except block
         Raised(IF b.kind = "badtext" THEN 1 ELSE 0)
    ELSE IF b.kind = "badtext"
    THEN ExecLocal(b, fault, 1, 0)
    ELSE IF fault = "run_raises"
    THEN \* the docker path raised before the container ran: local fallback
         ExecLocal(b, "none", 0, 0)
    ELSE IF b.kind = "loop"
    THEN \* TimeoutExpired kills the docker client; nothing stops the container
         Result(-1, FALSE, TRUE, None, {}, 0, TRUE, 1, 0)
    ELSE IF fault = "save_raises"
    THEN \* the container ran, saving its output raised: local fallback
         ExecLocal(b, fault, 0, 1)
    ELSE Result(b.rc, b.out, b.err, Some(StdList(b)), StdFiles(b),
                0, FALSE, 1, 0)

(* execute_blender(job_id, file_path, args) *)
execute_blender(b, fault, e) ==
    IF fault = "log_raises"
    THEN Raised(0)
    ELSE IF ~e.docker_available
    THEN Result(-1, FALSE, TRUE, Some(<<>>), {}, 0, FALSE, 0, 0)
    ELSE IF fault = "save_raises"
    THEN \* os.makedirs raises after temp_script was created, before the try
         Result(-1, FALSE, TRUE, Some(<<>>), {}, 1, FALSE, 0, 0)
    ELSE IF fault = "run_raises"
    THEN Result(-1, FALSE, TRUE, Some(<<>>), {}, 0, FALSE, 0, 0)
    ELSE IF b.kind = "loop"
    THEN Result(-1, FALSE, TRUE, Some(<<>>), {}, 0, TRUE, 1, 0)
    ELSE Result(b.rc, b.out, b.err,
                Some(IF b.rc = 0 THEN <<"render.png">> ELSE <<>>),
                StdFiles(b) \cup (IF b.rc = 0 THEN {"render.png"} ELSE {}),
                0, FALSE, 1, 0)

(* execute_autocad(job_id, file_path, args) *)
execute_autocad(fault) ==
    IF fault = "log_raises"
    THEN Raised(0)
    ELSE IF fault = "save_raises"
    THEN Result(1, FALSE, TRUE, Some(<<>>), {}, 0, FALSE, 0, 0)
    ELSE Result(0, TRUE, FALSE, Some(<<"output.dwg">>), {"output.dwg"},
                0, FALSE, 0, 0)

safe_commands == {"echo", "ls", "pwd", "date"}

(* execute_custom with a deny-list in place of the allow-list. *)
execute_custom_DenyList(command, b, fault) ==
    IF fault = "log_raises"
    THEN Raised(0)
    ELSE IF command = <<>>
    THEN Raised(0)
    ELSE IF command[1] \in {"sudo", "shutdown"}
    THEN Result(-1, FALSE, TRUE, None, {}, 0, FALSE, 0, 0)
    ELSE IF fault = "run_raises" \/ b.kind = "loop"
    THEN Result(-1, FALSE, TRUE, None, {}, 0, FALSE, 0,
                IF b.kind = "loop" /\ fault # "run_raises" THEN 1 ELSE 0)
    ELSE Result(b.rc, b.out, b.err, Some(<<>>), {}, 0, FALSE, 0, 1)

(* execute_custom without the allow-list test. *)
execute_custom_NoAllowList(command, b, fault) ==
    IF fault = "log_raises"
    THEN Raised(0)
    ELSE IF command = <<>>
    THEN Raised(0)
    ELSE IF fault = "run_raises" \/ b.kind = "loop"
    THEN Result(-1, FALSE, TRUE, None, {}, 0, FALSE, 0,
                IF b.kind = "loop" /\ fault # "run_raises" THEN 1 ELSE 0)
    ELSE Result(b.rc, b.out, b.err, Some(<<>>), {}, 0, FALSE, 0, 1)

(* execute_custom(job_id, command, args); command is command.split() *)
execute_custom(command, b, fault) ==
    IF fault = "log_raises"
    THEN Raised(0)
    ELSE IF command = <<>>
    THEN Raised(0)            \* cmd_parts[0]: IndexError
    ELSE IF command[1] \notin safe_commands
    THEN Result(-1, FALSE, TRUE, None, {}, 0, FALSE, 0, 0)
    ELSE IF fault = "run_raises" \/ b.kind = "loop"
    THEN Result(-1, FALSE, TRUE, None, {}, 0, FALSE, 0,
                IF b.kind = "loop" /\ fault # "run_raises" THEN 1 ELSE 0)
    ELSE Result(b.rc, b.out, b.err, Some(<<>>), {}, 0, FALSE, 0, 1)


-----------------------------------------------------------------------------
(* The job table and the submit routes.                                    *)

valid_modes == {"ai", "blender", "autocad", "custom"}
Terminal == {"completed", "failed"}

(* str(uuid.uuid4()): a fresh id per call *)
Uuid(n) == <<"uuid-" \o ToString(n)>>

(* f"{session_id}_{cell_id}_{int(time.time())}" *)
NotebookJobId(session_id, cell_id, t) ==
    <<session_id \o "_" \o cell_id \o "_" \o ToString(t)>>

NewJob(job_id, mode, command, session_id, cell_id) ==
    [job_id |-> job_id, mode |-> mode, status |-> "queued",
     command |-> command, session_id |-> session_id, cell_id |-> cell_id,
     output_files |-> <<>>, exit_code |-> None, runtime |-> None]

(* What a task keeps of the dict its execution function returned. *)
Returned(r) ==
    [exit_code |-> r.exit_code, stdout |-> r.stdout, stderr |-> r.stderr,
     output_files |-> r.output_files]

(* A background task: its argument job_id, its position, its local `job'  *)
(* (0 before it is bound) and `result', how many times it has launched     *)
(* the payload in a container (docker) and as a host subprocess (host),    *)
(* and what the payload did in the launch `result' came from (payload).    *)
NewTask(kind, job_id) ==
    [kind |-> kind, job_id |-> job_id, pc |-> "begin", job |-> 0,
     result |-> Returned(NoResult), docker |-> 0, host |-> 0, payload |-> None]

(* A request's inputs and the response to it.  resp is the response of the *)
(* step just taken, NoResponse when that step was not a request.           *)
Request(mode, job_id, command, session_id, name) ==
    [mode |-> mode, job_id |-> job_id, command |-> command,
     session_id |-> session_id, name |-> name]
NoRequest == Request("", None, <<>>, None, "")

Response(route, req, code, path) ==
    [route |-> route, req |-> req, code |-> code, path |-> path]
NoResponse == Response("", NoRequest, 0, None)

(* jobs[job_id] = job; socketio.start_background_task(task, job_id) *)
Enqueue(kind, job) ==
    /\ heap' = Append(heap, job)
    /\ jobs' = (job.job_id :> (Len(heap) + 1)) @@ jobs
    /\ tasks' = Append(tasks, NewTask(kind, job.job_id))

(* execute_job made to reject a custom submit that carries no command. *)
execute_job_RequireCommand(mode, job_id, command) ==
    /\ IF mode \notin valid_modes \/ (mode = "custom" /\ command = <<>>)
       THEN /\ resp' = Response("execute", Request(mode, job_id, command, None, ""),
                                400, None)
            /\ UNCHANGED <<jobs, heap, tasks>>
       ELSE /\ Enqueue("job", NewJob(IF job_id = None THEN Uuid(Len(heap) + 1)
                                                      ELSE job_id,
                                     mode, command, None, None))
            /\ resp' = Response("execute", Request(mode, job_id, command, None, ""),
                                202, None)
    /\ UNCHANGED <<scratch, containers, files, env, now>>

(* execute_job with the mode check left out. *)
execute_job_NoModeCheck(mode, job_id, command) ==
    /\ Enqueue("job", NewJob(IF job_id = None THEN Uuid(Len(heap) + 1) ELSE job_id,
                             mode, command, None, None))
    /\ resp' = Response("execute", Request(mode, job_id, command, None, ""),
                        202, None)
    /\ UNCHANGED <<scratch, containers, files, env, now>>

(* POST /execute.  job_id is the request's job_id (None when absent),      *)
(* command the tokens of its command string.                               *)
execute_job(mode, job_id, command) ==
    /\ IF mode \notin valid_modes
       THEN /\ resp' = Response("execute", Request(mode, job_id, command, None, ""),
                                400, None)
            /\ UNCHANGED <<jobs, heap, tasks>>
       ELSE /\ Enqueue("job", NewJob(IF job_id = None THEN Uuid(Len(heap) + 1)
                                                      ELSE job_id,
                                     mode, command, None, None))
            /\ resp' = Response("execute", Request(mode, job_id, command, None, ""),
                                202, None)
    /\ UNCHANGED <<scratch, containers, files, env, now>>

(* POST /notebook/execute *)
execute_notebook_cell(session_id, cell_id) ==
    /\ IF session_id = None
       THEN /\ resp' = Response("notebook",
                                Request("notebook", None, <<>>, session_id, cell_id),
                                400, None)
            /\ UNCHANGED <<jobs, heap, tasks>>
       ELSE /\ Enqueue("cell", NewJob(NotebookJobId(session_id[1], cell_id, now),
                                      "notebook", <<>>, session_id, Some(cell_id)))
            /\ resp' = Response("notebook",
                                Request("notebook", None, <<>>, session_id, cell_id),
                                202, None)
    /\ UNCHANGED <<scratch, containers, files, env, now>>

(* GET /output/<job_id>/<filename>: both are single URL path segments. *)
get_job_output(job_id, filename) ==
    /\ LET output_dir == PathJoin(OUTPUT_FOLDER, job_id)
           file_path == NormPath(PathJoin(output_dir, <<filename>>))
           req == Request("", job_id, <<>>, None, filename)
       IN  resp' = IF file_path \notin files
                   THEN Response("output", req, 404, None)
                   ELSE Response("output", req, 200, Some(file_path))
    /\ UNCHANGED <<jobs, heap, tasks, scratch, containers, files, env, now>>

(* GET /download/<job_id>/<filename> *)
download_output(job_id, filename) ==
    /\ LET file_path == NormPath(PathJoin(PathJoin(OUTPUT_FOLDER, job_id),
                                          <<filename>>))
           req == Request("", job_id, <<>>, None, filename)
       IN  resp' = IF job_id \notin DOMAIN jobs
                   THEN Response("download", req, 404, None)
                   ELSE IF \A i \in DOMAIN heap[jobs[job_id]].output_files :
                             heap[jobs[job_id]].output_files[i] # filename
                   THEN Response("download", req, 404, None)
                   ELSE IF file_path \notin files
                   THEN Response("download", req, 404, None)
                   ELSE Response("download", req, 200, Some(file_path))
    /\ UNCHANGED <<jobs, heap, tasks, scratch, containers, files, env, now>>

-----------------------------------------------------------------------------
(* The background tasks execute_job_async and execute_notebook_cell_async. *)
(* A task is at one of: begin, exec, setexit, setstatus, setfiles, post,   *)
(* handler (its `except Exception' block), done.                           *)

SetPc(t, pc) == [tasks EXCEPT ![t].pc = pc]

(* The task's function returns: its locals are gone. *)
Finish(t) ==
    [tasks EXCEPT ![t].pc = "done", ![t].result = Returned(NoResult),
                  ![t].payload = None]

(* Begin with the first emit moved before the write of 'running'. *)
Begin_EmitFirst(t) ==
    /\ tasks[t].pc = "begin"
    /\ LET o == jobs[tasks[t].job_id]
       IN  \E raises \in BOOLEAN :
             /\ heap' = IF raises THEN heap
                        ELSE [heap EXCEPT ![o].status = "running"]
             /\ tasks' = [tasks EXCEPT ![t].job = o,
                                       ![t].pc = IF raises THEN "handler" ELSE "exec"]
    /\ resp' = NoResponse
    /\ UNCHANGED <<jobs, scratch, containers, files, env, now>>

(* job = jobs[job_id]; job['status'] = 'running'; then the first emits and *)
(* log lines, any of which may raise.                                      *)
Begin(t) ==
    /\ tasks[t].pc = "begin"
    /\ LET o == jobs[tasks[t].job_id]
       IN  /\ heap' = [heap EXCEPT ![o].status = "running"]
           /\ \E raises \in BOOLEAN :
                tasks' = [tasks EXCEPT ![t].job = o,
                                       ![t].pc = IF raises THEN "handler" ELSE "exec"]
    /\ resp' = NoResponse
    /\ UNCHANGED <<jobs, scratch, containers, files, env, now>>

(* The dispatch on job['mode'] of execute_job_async (the notebook task     *)
(* always calls execute_python_code). *)
RunMode(job, b, fault, e) ==
    IF job.mode = "ai" \/ job.mode = "notebook"
    THEN execute_python_code(b, fault, e)
    ELSE IF job.mode = "blender"
    THEN execute_blender(b, fault, e)
    ELSE IF job.mode = "autocad"
    THEN execute_autocad(fault)
    ELSE execute_custom(job.command, b, fault)

Exec(t, b, fault) ==
    /\ tasks[t].pc = "exec"
    /\   LET o == tasks[t].job
             r == RunMode(heap[o], b, fault, env)
         IN  /\ scratch' = scratch \cup {<<t, i>> : i \in 1..r.leaked}
             /\ containers' = containers \cup (IF r.container THEN {t} ELSE {})
             /\ files' = files \cup {ArtifactPath(tasks[t].job_id, n) : n \in r.wrote}
             /\ IF ~r.raised
                THEN /\ tasks' = [tasks EXCEPT ![t].result = Returned(r),
                                               ![t].docker = @ + r.docker,
                                               ![t].host = @ + r.host,
                                               ![t].payload =
                                                   IF r.docker + r.host > 0
                                                   THEN Some(b) ELSE None,
                                               ![t].pc = "setexit"]
                     /\ heap' = heap
                ELSE IF tasks[t].kind = "job"
                THEN /\ tasks' = SetPc(t, "handler")
                     /\ heap' = heap
                ELSE \* except Exception as exec_error: status failed, return
                     /\ tasks' = Finish(t)
                     /\ heap' = [heap EXCEPT ![o].status = "failed"]
    /\ resp' = NoResponse
    /\ UNCHANGED <<jobs, env, now>>

(* job['runtime'] = runtime; job['exit_code'] = result['exit_code'] *)
SetExit(t) ==
    /\ tasks[t].pc = "setexit"
    /\ heap' = [heap EXCEPT ![tasks[t].job].runtime = Some(1),
                            ![tasks[t].job].exit_code = Some(tasks[t].result.exit_code)]
    /\ tasks' = SetPc(t, "setstatus")
    /\ resp' = NoResponse
    /\ UNCHANGED <<jobs, scratch, containers, files, env, now>>

StatusOf(exit_code) == IF exit_code = 0 THEN "completed" ELSE "failed"

(* job['status'] = 'completed' if result['exit_code'] == 0 else 'failed' *)
SetStatus(t) ==
    /\ tasks[t].pc = "setstatus"
    /\ heap' = [heap EXCEPT ![tasks[t].job].status = StatusOf(tasks[t].result.exit_code)]
    /\ tasks' = SetPc(t, IF tasks[t].kind = "job" THEN "setfiles" ELSE "post")
    /\ resp' = NoResponse
    /\ UNCHANGED <<jobs, scratch, containers, files, env, now>>

(* job['output_files'] = result.get('output_files', []) *)
SetFiles(t) ==
    /\ tasks[t].pc = "setfiles"
    /\ heap' = [heap EXCEPT ![tasks[t].job].output_files =
                    IF tasks[t].result.output_files = None
                    THEN <<>> ELSE tasks[t].result.output_files[1]]
    /\ tasks' = SetPc(t, "post")
    /\ resp' = NoResponse
    /\ UNCHANGED <<jobs, scratch, containers, files, env, now>>

(* The closing log lines and the final emit, any of which may raise. *)
Post(t) ==
    /\ tasks[t].pc = "post"
    /\ \E raises \in BOOLEAN :
         tasks' = IF raises THEN SetPc(t, "handler") ELSE Finish(t)
    /\ resp' = NoResponse
    /\ UNCHANGED <<jobs, heap, scratch, containers, files, env, now>>

(* The except block without its first statement: it only logs and emits. *)
Handler_LogOnly(t) ==
    /\ tasks[t].pc = "handler"
    /\ heap' = heap
    /\ tasks' = Finish(t)
    /\ resp' = NoResponse
    /\ UNCHANGED <<jobs, scratch, containers, files, env, now>>

(* except Exception as e: job['status'] = 'failed'; ... *)
Handler(t) ==
    /\ tasks[t].pc = "handler"
    /\ heap' = [heap EXCEPT ![tasks[t].job].status = "failed"]
    /\ tasks' = Finish(t)
    /\ resp' = NoResponse
    /\ UNCHANGED <<jobs, scratch, containers, files, env, now>>

Step(t) ==
    \/ Begin(t)
    \/ SetExit(t)
    \/ SetStatus(t)
    \/ SetFiles(t)
    \/ Post(t)
    \/ Handler(t)

-----------------------------------------------------------------------------
(* The worker registry (node_registry.py).  A row of the `nodes' table is  *)
(* [status, registered_at, last_heartbeat]; timestamps are in seconds.     *)

heartbeat_timeout == 300
CleanupInterval == 60

(* The clock advances, one cleanup interval at a time. *)
Tick ==
    /\ now < MaxTicks * CleanupInterval
    /\ now' = now + CleanupInterval
    /\ resp' = NoResponse
    /\ UNCHANGED <<jobs, heap, tasks, scratch, containers, files, env>>

Row(status, registered_at, last_heartbeat) ==
    [status |-> status, registered_at |-> registered_at,
     last_heartbeat |-> last_heartbeat]

(* A call of a registry operation: its name, its arguments, the boolean   *)
(* it returned; again tells that the call before it was the same call.     *)
Call(op, node_id, status, ok) ==
    [op |-> op, node_id |-> node_id, status |-> status, ok |-> ok,
     again |-> regop.op = op /\ regop.node_id = node_id /\ regop.status = status]
NoCall == [op |-> "", node_id |-> "", status |-> "", ok |-> TRUE, again |-> FALSE]

(* update_heartbeat as an upsert: an unknown worker-id gets a fresh row. *)
update_heartbeat_AutoCreate(node_id) ==
    /\ IF node_id \in DOMAIN nodes
       THEN /\ nodes' = [nodes EXCEPT ![node_id].last_heartbeat = now,
                                      ![node_id].status = "ready"]
            /\ swept' = [swept EXCEPT ![node_id] =
                             IF @ = "no" THEN "no" ELSE "beaten"]
       ELSE /\ nodes' = (node_id :> Row("ready", now, now)) @@ nodes
            /\ swept' = (node_id :> "no") @@ swept
    /\ regop' = Call("heartbeat", node_id, "", node_id \in DOMAIN nodes)
    /\ UNCHANGED now

(* update_heartbeat that also moves the old last_heartbeat to registered_at. *)
update_heartbeat_ShiftTimestamps(node_id) ==
    /\ IF node_id \in DOMAIN nodes
       THEN /\ nodes' = [nodes EXCEPT ![node_id].registered_at =
                                          nodes[node_id].last_heartbeat,
                                      ![node_id].last_heartbeat = now,
                                      ![node_id].status = "ready"]
            /\ swept' = [swept EXCEPT ![node_id] =
                             IF @ = "no" THEN "no" ELSE "beaten"]
       ELSE UNCHANGED <<nodes, swept>>
    /\ regop' = Call("heartbeat", node_id, "", node_id \in DOMAIN nodes)
    /\ UNCHANGED now

(* update_heartbeat that refreshes the timestamp and leaves status alone. *)
update_heartbeat_KeepStatus(node_id) ==
    /\ IF node_id \in DOMAIN nodes
       THEN /\ nodes' = [nodes EXCEPT ![node_id].last_heartbeat = now]
            /\ swept' = [swept EXCEPT ![node_id] =
                             IF @ = "no" THEN "no" ELSE "beaten"]
       ELSE UNCHANGED <<nodes, swept>>
    /\ regop' = Call("heartbeat", node_id, "", node_id \in DOMAIN nodes)
    /\ UNCHANGED now

(* register_node as an update in place: an existing row keeps registered_at. *)
register_node_KeepRegisteredAt(node_id, status) ==
    /\ nodes' = (node_id :> Row(status,
                                IF node_id \in DOMAIN nodes
                                THEN nodes[node_id].registered_at ELSE now,
                                now)) @@ nodes
    /\ swept' = (node_id :> "no") @@ swept
    /\ regop' = Call("register", node_id, status, TRUE)
    /\ UNCHANGED now

(* register_node: INSERT OR REPLACE with status from the caller *)
register_node(node_id, status) ==
    /\ nodes' = (node_id :> Row(status, now, now)) @@ nodes
    /\ swept' = (node_id :> "no") @@ swept
    /\ regop' = Call("register", node_id, status, TRUE)
    /\ UNCHANGED now

(* update_heartbeat: UPDATE ... SET last_heartbeat = now, status = 'ready' *)
update_heartbeat(node_id) ==
    /\ IF node_id \in DOMAIN nodes
       THEN /\ nodes' = [nodes EXCEPT ![node_id].last_heartbeat = now,
                                      ![node_id].status = "ready"]
            /\ swept' = [swept EXCEPT ![node_id] =
                             IF @ = "no" THEN "no" ELSE "beaten"]
       ELSE UNCHANGED <<nodes, swept>>
    /\ regop' = Call("heartbeat", node_id, "", node_id \in DOMAIN nodes)
    /\ UNCHANGED now

(* The rows cleanup_stale_nodes updates. *)
Stale == {n \in DOMAIN nodes :
             /\ nodes[n].last_heartbeat < now - heartbeat_timeout
             /\ nodes[n].status # "offline"}

(* cleanup_stale_nodes that looks at ready rows only. *)
cleanup_stale_nodes_ReadyOnly ==
    /\ nodes' = [n \in DOMAIN nodes |->
                    IF n \in Stale /\ nodes[n].status = "ready"
                    THEN [nodes[n] EXCEPT !.status = "offline"]
                    ELSE nodes[n]]
    /\ swept' = [n \in DOMAIN swept |->
                    IF n \in Stale /\ nodes[n].status = "ready"
                    THEN "swept" ELSE swept[n]]
    /\ regop' = Call("sweep", "", "", TRUE)
    /\ UNCHANGED now

(* cleanup_stale_nodes that deletes the stale rows. *)
cleanup_stale_nodes_Delete ==
    /\ nodes' = [n \in DOMAIN nodes \ Stale |-> nodes[n]]
    /\ swept' = [n \in DOMAIN swept |-> IF n \in Stale THEN "swept" ELSE swept[n]]
    /\ regop' = Call("sweep", "", "", TRUE)
    /\ UNCHANGED now

(* cleanup_stale_nodes, run by the cleanup thread *)
cleanup_stale_nodes ==
    /\ nodes' = [n \in DOMAIN nodes |->
                    IF n \in Stale THEN [nodes[n] EXCEPT !.status = "offline"]
                    ELSE nodes[n]]
    /\ swept' = [n \in DOMAIN swept |-> IF n \in Stale THEN "swept" ELSE swept[n]]
    /\ regop' = Call("sweep", "", "", TRUE)
    /\ UNCHANGED now

(* get_all_nodes(active_only=True), as the set of node ids it returns *)
ActiveNodes == {n \in DOMAIN nodes :
                   nodes[n].last_heartbeat > now - heartbeat_timeout}

(* The threads that call the registry: request threads of the server      *)
(* (async_mode 'threading') and the registry's cleanup thread.  A thread   *)
(* is idle, at `with self.lock' (lock), inside the database section (db),  *)
(* or past its statement and about to leave the section (exit); result is  *)
(* what a read returned.                                                   *)
Threads == {"req1", "req2", "cleanup"}
RequestOps == {"register_node", "update_heartbeat", "get_node",
               "get_all_nodes", "get_device_count"}
Reads == {"get_node", "get_all_nodes", "get_device_count"}

Idle == [pc |-> "idle", op |-> "", node_id |-> "", result |-> None]

(* get_node(node_id): the row, or None *)
get_node(node_id) ==
    IF node_id \in DOMAIN nodes THEN Some(nodes[node_id]) ELSE None

(* get_device_count(): the distinct tailscale_ip values that are not NULL; *)
(* the workers of this model register without one.                         *)
get_device_count == Cardinality({n \in DOMAIN nodes : FALSE})

(* What a read returns from the table as it is. *)
ReadOf(op, node_id) ==
    IF op = "get_node" THEN get_node(node_id)
    ELSE IF op = "get_all_nodes" THEN Some(ActiveNodes)
    ELSE Some(get_device_count)

(* A thread calls an operation and arrives at `with self.lock'. *)
call(th, op, node_id) ==
    /\ threads[th].pc = "idle"
    /\ IF th = "cleanup" THEN op = "cleanup_stale_nodes" ELSE op \in RequestOps
    /\ threads' = [threads EXCEPT ![th] =
                       [pc |-> "lock", op |-> op, result |-> None,
                        node_id |-> IF op \in {"register_node", "update_heartbeat",
                                               "get_node"}
                                    THEN node_id ELSE ""]]
    /\ UNCHANGED <<nodes, swept, regop, lock, sioVars, now>>

(* `with self.lock' that does not wait for the holder. *)
acquire_NoWait(th) ==
    /\ threads[th].pc = "lock"
    /\ lock' = Some(th)
    /\ threads' = [threads EXCEPT ![th].pc = "db"]
    /\ UNCHANGED <<nodes, swept, regop, sioVars, now>>

(* `with self.lock': the thread waits until the lock is free and takes it. *)
acquire(th) ==
    /\ threads[th].pc = "lock"
    /\ lock = None
    /\ lock' = Some(th)
    /\ threads' = [threads EXCEPT ![th].pc = "db"]
    /\ UNCHANGED <<nodes, swept, regop, sioVars, now>>

(* The statement of the operation, run and committed on its connection. *)
statement(th) ==
    /\ threads[th].pc = "db"
    /\ LET op == threads[th].op
           node_id == threads[th].node_id
       IN  /\ IF op = "register_node" THEN register_node(node_id, "busy")
              ELSE IF op = "update_heartbeat" THEN update_heartbeat(node_id)
              ELSE IF op = "cleanup_stale_nodes" THEN cleanup_stale_nodes
              ELSE UNCHANGED <<nodes, swept, regop, now>>
           /\ threads' = [threads EXCEPT
                             ![th].pc = "exit",
                             ![th].result = IF op \in Reads THEN ReadOf(op, node_id)
                                            ELSE None]
    /\ UNCHANGED <<lock, sioVars>>

(* The end of the `with self.lock' block: the lock is released and the    *)
(* operation returns.                                                      *)
release(th) ==
    /\ threads[th].pc = "exit"
    /\ lock' = None
    /\ threads' = [threads EXCEPT ![th] = Idle]
    /\ UNCHANGED <<nodes, swept, regop, sioVars, now>>

(* register_node when sqlite3 raises (database locked, disk full, file not *)
(* writable): the except block logs and returns False, the table is as it  *)
(* was.                                                                    *)
register_node_except(node_id, status) ==
    /\ regop' = Call("register", node_id, status, FALSE)
    /\ UNCHANGED <<nodes, swept, now>>

(* What a Socket.IO handler emitted: its event name, the worker it ran     *)
(* for, and the events in the order of their emits.                        *)
Emitted(handler, node_id, evs) ==
    [handler |-> handler, node_id |-> node_id, events |-> evs]
NoEmitted == Emitted("", "", <<>>)

(* handle_compute_node_registration(data) on connection sid: the return    *)
(* value of register_node is dropped, the worker is kept in compute_nodes, *)
(* announced to the other clients and answered 'registered'; an emit that  *)
(* raises is answered 'error' by the except block.                         *)
handle_compute_node_registration(sid, node_id, status, db_fails, emit_raises) ==
    /\ IF db_fails
       THEN register_node_except(node_id, status)
       ELSE register_node(node_id, status)
    /\ compute_nodes' = (sid :> [node_id |-> node_id, status |-> status])
                            @@ compute_nodes
    /\ emitted' = Emitted("register_compute_node", node_id,
                          IF emit_raises THEN <<"error">>
                          ELSE <<"compute_node_registered", "registered">>)
    /\ UNCHANGED lockVars

(* handle_node_heartbeat(data): the return value of update_heartbeat is    *)
(* dropped and the heartbeat acknowledged.                                 *)
handle_node_heartbeat(node_id) ==
    /\ update_heartbeat(node_id)
    /\ emitted' = Emitted("node_heartbeat", node_id, <<"heartbeat_ack">>)
    /\ UNCHANGED <<compute_nodes, lockVars>>


-----------------------------------------------------------------------------
(* The compute node's sessions (compute_node.py).  session_data keeps the  *)
(* client's public key; the AES session key lives in its CryptoSession.    *)
(* id tells one session_data object from the next under the same           *)
(* session_id.                                                             *)

SessionData(id) ==
    [id |-> id, remote_public_key |-> None, aes_key |-> None, ice |-> FALSE]

(* CryptoSession.exchange_aes_key: unwraps the key with the node's private *)
(* key and keeps it; a key that does not unwrap raises.                    *)
exchange_aes_key(crypto, wrapped) ==
    [raised |-> ~wrapped.valid,
     crypto |-> IF wrapped.valid THEN [crypto EXCEPT !.aes_key = Some(wrapped.key)]
                ELSE crypto]

(* CryptoSession.decrypt_payload: raises without a session key or when the *)
(* payload was not sealed under it.                                        *)
decrypt_payload(crypto, sealed) ==
    [raised |-> crypto.aes_key = None \/ crypto.aes_key # Some(sealed.key)]

(* The data-channel messages a client can send. *)
PublicKeys == {None, Some("pem")}
Messages ==
    [type : {"send_public_key"}, public_key : PublicKeys]
        \cup [type : {"send_aes_key"}, valid : BOOLEAN, key : {"K"}]
        \cup [type : {"encrypted_task"}, key : {"K"}]
        \cup [type : {"garbage"}]

(* The record of the last handler the node ran: which one, for which     *)
(* session, whether CryptoSession (or, for a candidate, the handler)      *)
(* raised inside it, and the data channels it sent on.                    *)
Handled(op, session_id, failed) ==
    [op |-> op, session_id |-> session_id, failed |-> failed, sent |-> {},
     msgs |-> {}]

(* channel.send(...) on data channel c inside the handler. *)
Sent(h, c) == [h EXCEPT !.sent = @ \cup {c}]

(* channel.send(json.dumps({'type': type, ...})) on data channel c: the    *)
(* message's type and, for a result, the key its payload is sealed under   *)
(* (None for a payload that is not sealed).                                *)
Reply(h, c, type, sealed) ==
    [Sent(h, c) EXCEPT !.msgs = @ \cup {[channel |-> c, type |-> type,
                                         sealed |-> sealed]}]

(* CryptoSession.encrypt_payload: seals the plaintext under the session's  *)
(* AES key; raises without one.                                            *)
encrypt_payload(crypto) ==
    [raised |-> crypto.aes_key = None, sealed |-> crypto.aes_key]

NoHandler == Handled("", "", FALSE)

(* The open data channels whose handlers belong to session_id. *)
ChannelsOf(session_id) == {c \in DOMAIN channels : channels[c] = session_id}

(* on_datachannel: self.sessions[session_id] = session_data, and the      *)
(* channel's on_message / on_close closures capture session_id.           *)
on_datachannel(session_id) ==
    /\ offers < MaxOffers
    /\ offers' = offers + 1
    /\ sessions' = (session_id :> SessionData(offers + 1)) @@ sessions
    /\ channels' = ((offers + 1) :> session_id) @@ channels
    /\ nodeop' = Handled("datachannel", session_id, FALSE)
    /\ UNCHANGED handlers

(* _handle_message(session_id, message), up to its first long await: every *)
(* exception is logged and swallowed, leaving what was written before it.  *)
handle_message(session_id, msg) ==
    /\ session_id \in DOMAIN sessions
    /\ LET sd == sessions[session_id]
       IN  IF msg.type = "send_public_key"
           THEN /\ sessions' = [sessions EXCEPT
                                   ![session_id].remote_public_key = msg.public_key]
                /\ nodeop' = Reply(Handled("message", session_id, FALSE), sd.id,
                                   "key_exchange", None)
                /\ UNCHANGED handlers
           ELSE IF msg.type = "send_aes_key"
           THEN /\ sessions' = [sessions EXCEPT
                                   ![session_id] = exchange_aes_key(sd, msg).crypto]
                /\ nodeop' = IF exchange_aes_key(sd, msg).raised
                             THEN Handled("message", session_id, TRUE)
                             ELSE Reply(Handled("message", session_id, FALSE), sd.id,
                                        "key_exchange", None)
                /\ UNCHANGED handlers
           ELSE IF msg.type = "encrypted_task" /\ ~decrypt_payload(sd, msg).raised
           THEN /\ handlers' = handlers \cup {[session_id |-> session_id, id |-> sd.id,
                                               aes_key |-> sd.aes_key]}
                /\ nodeop' = Handled("message", session_id, FALSE)
                /\ UNCHANGED sessions
           ELSE /\ nodeop' = Handled("message", session_id,
                                     msg.type = "encrypted_task")
                /\ UNCHANGED <<sessions, handlers>>
    /\ UNCHANGED <<offers, channels>>

(* The rest of an encrypted_task that sends the result as it is, with no  *)
(* encrypt_payload.                                                        *)
finish_task_Plaintext(h) ==
    /\ h \in handlers
    /\ handlers' = handlers \ {h}
    /\ IF h.id \in DOMAIN channels
       THEN /\ channels' = [c \in DOMAIN channels \ {h.id} |-> channels[c]]
            /\ sessions' = [s \in DOMAIN sessions \ {h.session_id} |-> sessions[s]]
            /\ nodeop' = Reply(Handled("finish", h.session_id, FALSE), h.id,
                               "result", None)
       ELSE /\ nodeop' = Handled("finish", h.session_id, FALSE)
            /\ UNCHANGED <<channels, sessions>>
    /\ UNCHANGED offers

(* The rest of an encrypted_task in which encrypt_payload (or building the *)
(* result) raises: the except block logs, nothing is sent, the channel and *)
(* the session stay.                                                       *)
finish_task_except(h) ==
    /\ h \in handlers
    /\ handlers' = handlers \ {h}
    /\ nodeop' = Handled("finish", h.session_id, TRUE)
    /\ UNCHANGED <<channels, sessions, offers>>

(* The rest of an encrypted_task, with self.sessions.clear() in place of  *)
(* the del of the one session.                                            *)
finish_task_ClearSessions(h) ==
    /\ h \in handlers
    /\ handlers' = handlers \ {h}
    /\ IF h.id \in DOMAIN channels
       THEN /\ channels' = [c \in DOMAIN channels \ {h.id} |-> channels[c]]
            /\ sessions' = <<>>
            /\ nodeop' = Reply(Handled("finish", h.session_id, FALSE), h.id,
                               "encrypted_result", encrypt_payload(h).sealed)
       ELSE /\ nodeop' = Handled("finish", h.session_id, FALSE)
            /\ UNCHANGED <<channels, sessions>>
    /\ UNCHANGED offers

(* The rest of an encrypted_task: the result is sent on the channel the    *)
(* handler holds, the channel closed and self.sessions[session_id]         *)
(* deleted, whichever session it now names.  On a channel that has closed  *)
(* meanwhile send raises, and the except block only logs.                  *)
finish_task(h) ==
    /\ h \in handlers
    /\ handlers' = handlers \ {h}
    /\ IF h.id \in DOMAIN channels
       THEN /\ channels' = [c \in DOMAIN channels \ {h.id} |-> channels[c]]
            /\ sessions' = [s \in DOMAIN sessions \ {h.session_id} |-> sessions[s]]
            /\ nodeop' = Reply(Handled("finish", h.session_id, FALSE), h.id,
                               "encrypted_result", encrypt_payload(h).sealed)
       ELSE /\ nodeop' = Handled("finish", h.session_id, FALSE)
            /\ UNCHANGED <<channels, sessions>>
    /\ UNCHANGED offers

(* on_close of channel c: the data channel closed, and the closure drops  *)
(* self.sessions[session_id] when the key is there.                       *)
on_close(c) ==
    /\ c \in DOMAIN channels
    /\ channels' = [d \in DOMAIN channels \ {c} |-> channels[d]]
    /\ sessions' = [s \in DOMAIN sessions \ {channels[c]} |-> sessions[s]]
    /\ nodeop' = Handled("close", channels[c], FALSE)
    /\ UNCHANGED <<handlers, offers>>

(* on_ice_candidate without the lookup of session_id in self.sessions. *)
on_ice_candidate_NoLookup(session_id, bad) ==
    /\ IF session_id \notin DOMAIN sessions
       THEN /\ nodeop' = Handled("ice_candidate", session_id, TRUE)
            /\ UNCHANGED sessions
       ELSE /\ sessions' = IF bad THEN sessions
                                  ELSE [sessions EXCEPT ![session_id].ice = TRUE]
            /\ nodeop' = Handled("ice_candidate", session_id, bad)
    /\ UNCHANGED <<handlers, offers, channels>>

(* on_ice_candidate(data): an unknown session_id returns at once; for a   *)
(* known one the candidate is added to its peer connection, and a         *)
(* candidate that does not parse (bad) raises out of the handler.         *)
on_ice_candidate(session_id, bad) ==
    /\ IF session_id \notin DOMAIN sessions
       THEN /\ nodeop' = Handled("ice_candidate", session_id, FALSE)
            /\ UNCHANGED sessions
       ELSE /\ sessions' = IF bad THEN sessions
                                  ELSE [sessions EXCEPT ![session_id].ice = TRUE]
            /\ nodeop' = Handled("ice_candidate", session_id, bad)
    /\ UNCHANGED <<handlers, offers, channels>>

(* disconnect: self.sessions.clear(), then the signalling socket closes;  *)
(* no data channel and no peer connection is touched.                     *)
disconnect ==
    /\ sessions # <<>>
    /\ sessions' = <<>>
    /\ nodeop' = Handled("disconnect", "", FALSE)
    /\ UNCHANGED <<handlers, offers, channels>>

-----------------------------------------------------------------------------
(* The job engine's specification: /execute submits with and without a     *)
(* job-id, in a valid and in an unknown mode, notebook cell submits, and   *)
(* the execution tasks, with payloads that exit 0 or nonzero and an event  *)
(* channel that may raise.                                                 *)

JobIds == {None, <<"j1">>}
Modes == {"ai", "shell"}
Commands == {<<>>, <<"echo", "hi">>, <<"rm", "-rf", "/">>}
SessionIds == {None, Some("s1")}
CellIds == {"c1"}

(* The files of the server's working directory at start-up: the registry's *)
(* database (db_path 'neurax_nodes.db'), beside the outputs folder.        *)
InitFiles == {<<"neurax_nodes.db">>}

InitJobs(envs) ==
    /\ jobs = <<>>
    /\ heap = <<>>
    /\ tasks = <<>>
    /\ scratch = {}
    /\ containers = {}
    /\ files = InitFiles
    /\ resp = NoResponse
    /\ env \in envs
    /\ now = 0

InitRegistry ==
    /\ nodes = <<>>
    /\ swept = <<>>
    /\ regop = NoCall
    /\ compute_nodes = <<>>
    /\ emitted = NoEmitted
    /\ lock = None
    /\ threads = [th \in Threads |-> Idle]

InitNode ==
    /\ sessions = <<>>
    /\ handlers = {}
    /\ offers = 0
    /\ channels = <<>>
    /\ nodeop = NoHandler

InitLog ==
    /\ logs = <<>>
    /\ events = <<>>

InitHost ==
    /\ tmp = {}
    /\ seen = <<>>

Envs == [docker_available : BOOLEAN, force_local : BOOLEAN]
DockerEnv == [docker_available |-> TRUE, force_local |-> FALSE]

Init == InitJobs({DockerEnv}) /\ InitRegistry /\ InitNode /\ InitLog /\ InitHost

Submit ==
    \E mode \in Modes, job_id \in JobIds :
      \E command \in (IF mode = "custom" THEN Commands ELSE {<<>>}) :
        /\ mode \in valid_modes => Len(heap) < MaxSubmits
        /\ execute_job(mode, job_id, command)

SubmitCell ==
    \E session_id \in SessionIds, cell_id \in CellIds :
        /\ session_id # None => Len(heap) < MaxSubmits
        /\ execute_notebook_cell(session_id, cell_id)

LifeBehaviours == {b \in Behaviours : ~b.out /\ b.kind = "exit"}
LifeFaults == {"none", "log_raises"}

Run ==
    \E t \in DOMAIN tasks :
        \/ Step(t)
        \/ \E b \in LifeBehaviours, fault \in LifeFaults : Exec(t, b, fault)

Next ==
    \/ (Submit /\ UNCHANGED <<regVars, nodeVars, logVars, hostVars>>)
    \/ (SubmitCell /\ UNCHANGED <<regVars, nodeVars, logVars, hostVars>>)
    \/ (Run /\ UNCHANGED <<regVars, nodeVars, logVars, hostVars>>)

Spec == Init /\ [][Next]_vars

-----------------------------------------------------------------------------
(* Properties of the job lifecycle.                                        *)

(* The status a job-id reads as: that of the dict the table binds it to. *)
JobStatus(job_id) == heap[jobs[job_id]].status


(* C1: for every job-id, a status that has reached completed or failed     *)
(* never changes again, and a running job never returns to queued.         *)
C1_StatusMonotone ==
    [][\A j \in DOMAIN jobs :
          /\ JobStatus(j) \in Terminal => JobStatus(j)' = JobStatus(j)
          /\ JobStatus(j) = "running" => JobStatus(j)' # "queued"]_vars

(* C2: no job reaches completed or failed without passing through running: *)
(* every step that makes a job dict's status terminal finds it running.    *)
C2_TerminalOnlyFromRunning ==
    [][\A o \in DOMAIN heap :
          (heap[o].status \notin Terminal /\ heap'[o].status \in Terminal)
              => heap[o].status = "running"]_vars

(* C2's case: one job ended on the normal path and one on an exception     *)
(* path (failed before any exit code was recorded).                        *)
C2_Witness ==
    \E o1, o2 \in DOMAIN heap :
        /\ heap[o1].status = "completed"
        /\ heap[o2].status = "failed" /\ heap[o2].exit_code = None

(* C3: a job reads completed only with exit_code 0, and failed never with  *)
(* exit_code 0, in every reachable state.                                  *)
C3_CompletedIffExitZero ==
    \A o \in DOMAIN heap :
        /\ heap[o].status = "completed" => heap[o].exit_code = Some(0)
        /\ heap[o].status = "failed" => heap[o].exit_code # Some(0)

(* C27: every job dict whose status is failed carries an exit code, and    *)
(* one that is not 0.                                                      *)
C27_FailedHasNonzeroExit ==
    \A o \in DOMAIN heap :
        heap[o].status = "failed" => heap[o].exit_code \notin {None, Some(0)}

(* C8: a submit whose mode is outside the known set is answered 400 and    *)
(* inserts no job and schedules no task.                                   *)
C8_UnknownModeRejected ==
    [][(resp'.route = "execute" /\ resp'.req.mode \notin valid_modes)
          => (resp'.code = 400 /\ UNCHANGED <<jobs, heap, tasks>>)]_vars

(* C8's case: an unknown mode was rejected while jobs exist and run. *)
C8_Witness ==
    /\ resp.route = "execute" /\ resp.req.mode = "shell" /\ resp.code = 400
    /\ heap # <<>>
    /\ \E t \in DOMAIN tasks : tasks[t].pc \notin {"begin", "done"}

(* The engine with its background tasks scheduled: a task that can take a *)
(* step is not left waiting for ever.                                      *)
RunTasks == Run /\ UNCHANGED <<regVars, nodeVars, logVars, hostVars>>

SpecLive == Init /\ [][Next]_vars /\ WF_vars(RunTasks)

(* The job-ids a submit can bind: the client's, a fresh uuid, a cell's. *)
KnownJobIds ==
    (JobIds \ {None})
        \cup {Uuid(n) : n \in 1..MaxSubmits}
        \cup {NotebookJobId(s[1], c, 0) : s \in SessionIds \ {None}, c \in CellIds}

(* C25: every job-id in the job table leads to a state where its job reads *)
(* completed or failed, whatever is raised inside the execution tasks.     *)
C25_EveryJobEnds ==
    \A j \in KnownJobIds :
        (j \in DOMAIN jobs) ~> (j \in DOMAIN jobs /\ JobStatus(j) \in Terminal)

(* C25's case: a job task and a cell task have both ended through their   *)
(* except blocks, leaving their jobs failed.                               *)
C25_Witness ==
    \E t, u \in DOMAIN tasks :
        /\ tasks[t].kind = "job" /\ tasks[u].kind = "cell"
        /\ tasks[t].pc = "done" /\ tasks[u].pc = "done"
        /\ tasks[t].job # tasks[u].job
        /\ heap[tasks[t].job].status = "failed" /\ heap[tasks[t].job].exit_code = None
        /\ heap[tasks[u].job].status = "failed" /\ heap[tasks[u].job].exit_code = None

-----------------------------------------------------------------------------
(* The cli (custom) mode: submits of custom jobs with an empty command, an *)
(* allow-listed command and a command outside the allow-list.              *)

CliBehaviours == {b \in Behaviours : b.kind = "exit" /\ b.out}
CliFaults == {"none", "run_raises", "log_raises"}

SubmitCli ==
    \E job_id \in JobIds, command \in Commands :
        /\ Len(heap) < MaxSubmits
        /\ execute_job("custom", job_id, command)

RunCli ==
    \E t \in DOMAIN tasks :
        \/ Step(t)
        \/ \E b \in CliBehaviours, fault \in CliFaults : Exec(t, b, fault)

NextCli ==
    \/ (SubmitCli /\ UNCHANGED <<regVars, nodeVars, logVars, hostVars>>)
    \/ (RunCli /\ UNCHANGED <<regVars, nodeVars, logVars, hostVars>>)

SpecCli == Init /\ [][NextCli]_vars

(* The tasks that fetched job dict o, and whether one may still write it. *)
TasksOf(o) == {t \in DOMAIN tasks : tasks[t].job = o}
Pending(o) ==
    \E t \in DOMAIN tasks :
        \/ tasks[t].job = o /\ tasks[t].pc # "done"
        \/ tasks[t].pc = "begin" /\ jobs[tasks[t].job_id] = o
Finished(o) == TasksOf(o) # {} /\ ~Pending(o)

(* The submit just answered created its job: the newest dict is queued,    *)
(* bound to its job-id, and a task for it waits to start.                  *)
JustCreated ==
    /\ resp.code = 202
    /\ heap # <<>> /\ tasks # <<>>
    /\ LET o == Len(heap)
       IN  /\ heap[o].status = "queued"
           /\ heap[o].mode = resp.req.mode
           /\ heap[o].command = resp.req.command
           /\ jobs[heap[o].job_id] = o
           /\ tasks[Len(tasks)].pc = "begin"
           /\ tasks[Len(tasks)].job_id = heap[o].job_id

EmptyCommand(req) == req.mode = "custom" /\ req.command = <<>>
UnsafeCommand(req) ==
    req.mode = "custom" /\ req.command # <<>> /\ req.command[1] \notin safe_commands

C10_UnsafeCommandRejected ==
    [][(resp'.route = "execute" /\ UnsafeCommand(resp'.req))
          => (resp'.code = 400 /\ UNCHANGED <<jobs, heap, tasks>>)]_vars

(* C10, amended: a custom submit whose command is outside the allow-list   *)
(* is accepted (202) and its job created; no task ever launches anything   *)
(* for it, the only exit code recorded for it is -1, and it ends failed.   *)
C10_UnsafeCommandFailsUnrun ==
    /\ (resp.route = "execute" /\ UnsafeCommand(resp.req)) => JustCreated
    /\ \A o \in DOMAIN heap :
          UnsafeCommand(heap[o]) =>
              /\ \A t \in TasksOf(o) : tasks[t].docker = 0 /\ tasks[t].host = 0
              /\ heap[o].exit_code \in {None, Some(-1)}
              /\ heap[o].status # "completed"
              /\ Finished(o) => heap[o].status = "failed"

(* C10's case: "rm -rf /" was submitted, ran through execute_custom and    *)
(* ended failed with exit code -1.                                         *)
C10_Witness ==
    \E o \in DOMAIN heap :
        /\ UnsafeCommand(heap[o]) /\ Finished(o)
        /\ heap[o].status = "failed" /\ heap[o].exit_code = Some(-1)

(* The command of the job dict a task fetched. *)
CommandOf(t) == heap[tasks[t].job].command

(* C11: a task has launched a subprocess for a custom job only if the      *)
(* first token of the job's command is in the allow-list; a job whose      *)
(* command is outside the allow-list ends failed with nothing launched.    *)
C11_OnlyAllowListedRun ==
    /\ \A t \in DOMAIN tasks :
          (tasks[t].host > 0 \/ tasks[t].docker > 0)
              => /\ tasks[t].job # 0
                 /\ CommandOf(t) # <<>>
                 /\ CommandOf(t)[1] \in safe_commands
    /\ \A o \in DOMAIN heap :
          (UnsafeCommand(heap[o]) /\ Finished(o))
              => /\ heap[o].status = "failed"
                 /\ \A t \in TasksOf(o) : tasks[t].host = 0 /\ tasks[t].docker = 0

(* C11's case: one task has launched an allow-listed command, and a job    *)
(* with a command outside the allow-list has run to its end.               *)
C11_Witness ==
    /\ \E t \in DOMAIN tasks :
          tasks[t].host > 0 /\ CommandOf(t)[1] \in safe_commands
    /\ \E o \in DOMAIN heap : UnsafeCommand(heap[o]) /\ Finished(o)

-----------------------------------------------------------------------------
(* The sandbox runs: ai, blender and autocad jobs and notebook cells, on   *)
(* hosts with and without docker, with every payload behaviour and every   *)
(* host fault.                                                             *)

SandboxModes == {"ai", "blender", "autocad"}

InitSandbox == InitJobs(Envs) /\ InitRegistry /\ InitNode /\ InitLog /\ InitHost

SubmitSandbox ==
    \E mode \in SandboxModes :
        /\ Len(heap) < MaxSubmits
        /\ execute_job(mode, None, <<>>)

SubmitCellSandbox ==
    /\ Len(heap) < MaxSubmits
    /\ execute_notebook_cell(Some("s1"), "c1")

RunSandbox ==
    \E t \in DOMAIN tasks :
        \/ Step(t)
        \/ \E b \in Behaviours, fault \in Faults : Exec(t, b, fault)

NextSandbox ==
    \/ (SubmitSandbox /\ UNCHANGED <<regVars, nodeVars, logVars, hostVars>>)
    \/ (SubmitCellSandbox /\ UNCHANGED <<regVars, nodeVars, logVars, hostVars>>)
    \/ (RunSandbox /\ UNCHANGED <<regVars, nodeVars, logVars, hostVars>>)

SpecSandbox == InitSandbox /\ [][NextSandbox]_vars

(* C6: once a task has finished and left its job in a terminal status, no  *)
(* scratch file it created still exists and no container or subprocess it  *)
(* started is still running.                                               *)
C6_NoResidue ==
    \A t \in DOMAIN tasks :
        (tasks[t].pc = "done" /\ heap[tasks[t].job].status \in Terminal)
            => /\ \A f \in scratch : f[1] # t
               /\ t \notin containers

(* C12: a task has run the code of a script or notebook job as a host      *)
(* subprocess only if the local-execution policy flag is set.              *)
C12_HostRunOnlyWithFlag ==
    \A t \in DOMAIN tasks :
        (tasks[t].host > 0 /\ heap[tasks[t].job].mode \in {"ai", "notebook"})
            => env.force_local

(* C28: every name in the output list of a job that has ended names a     *)
(* file that was written under the job's output directory.                 *)
C28_ListedArtifactsExist ==
    \A o \in DOMAIN heap :
        heap[o].status \in Terminal =>
            \A i \in DOMAIN heap[o].output_files :
                ArtifactPath(heap[o].job_id, heap[o].output_files[i]) \in files

(* C29: a script or notebook task whose payload ran into the deadline     *)
(* holds a result with exit code -1, a stderr text, and the stdout the     *)
(* payload had produced.                                                   *)
C29_TimeoutKeepsStdout ==
    \A t \in DOMAIN tasks :
        (/\ tasks[t].payload # None
         /\ tasks[t].payload[1].kind = "loop"
         /\ heap[tasks[t].job].mode \in {"ai", "notebook"})
            => /\ tasks[t].result.exit_code = -1
               /\ tasks[t].result.stderr
               /\ tasks[t].result.stdout = tasks[t].payload[1].out

(* C30: no task launches its job's payload more than once, container and  *)
(* host subprocess counted together.                                       *)
C30_PayloadRunsOnce ==
    \A t \in DOMAIN tasks : tasks[t].docker + tasks[t].host <= 1

-----------------------------------------------------------------------------
(* The artifact store: submits whose job_id is a plain name, a relative    *)
(* path with ".." or an absolute path, the files their runs write, and the *)
(* /output and /download routes.                                           *)

BodyJobIds == {<<"j1">>, <<"..">>, <<"..", "x">>, <<Root, "tmp">>}
UrlJobIds == {<<"j1">>, <<"..">>, <<"x">>}
Filenames == {"stdout.txt", "neurax_nodes.db"}
ArtifactBehaviours == {b \in Behaviours : b.kind = "exit" /\ b.out /\ b.rc = 0}

SubmitArtifact ==
    \E job_id \in BodyJobIds :
        /\ Len(heap) < MaxSubmits
        /\ execute_job("ai", job_id, <<>>)

RunArtifact ==
    \E t \in DOMAIN tasks :
        \/ Step(t)
        \/ \E b \in ArtifactBehaviours : Exec(t, b, "none")

GetOutput ==
    \E job_id \in UrlJobIds, filename \in Filenames :
        get_job_output(job_id, filename)

Download ==
    \E job_id \in UrlJobIds, filename \in Filenames :
        download_output(job_id, filename)

NextArtifacts ==
    \/ (SubmitArtifact /\ UNCHANGED <<regVars, nodeVars, logVars, hostVars>>)
    \/ (RunArtifact /\ UNCHANGED <<regVars, nodeVars, logVars, hostVars>>)
    \/ (GetOutput /\ UNCHANGED <<regVars, nodeVars, logVars, hostVars>>)
    \/ (Download /\ UNCHANGED <<regVars, nodeVars, logVars, hostVars>>)

SpecArtifacts == Init /\ [][NextArtifacts]_vars

(* A job-id that names a directory below the output root. *)
Clean(job_id) ==
    /\ job_id # <<>>
    /\ \A i \in DOMAIN job_id : job_id[i] \notin {Root, "..", "."}

(* p is output-root/<job-id>/<name> for an existing job and a one-component name. *)
Inside(p) ==
    \E j \in DOMAIN jobs :
        /\ Clean(j)
        /\ Len(p) = Len(OUTPUT_FOLDER) + Len(j) + 1
        /\ SubSeq(p, 1, Len(p) - 1) = OUTPUT_FOLDER \o j
        /\ p[Len(p)] \notin {Root, "..", "."}

(* C7: every file the execution functions have written, and every file the *)
(* /output and /download routes serve, is output-root/<job-id>/<name> of   *)
(* an existing job.                                                        *)
C7_ArtifactsStayInside ==
    /\ \A p \in files \ InitFiles : Inside(p)
    /\ (resp.route \in {"output", "download"} /\ resp.code = 200)
          => Inside(resp.path[1])

(* C26: the /output and /download routes answer 200 only for a job-id in  *)
(* the job table and a filename among that job's recorded output files.    *)
C26_ServedOnlyIfRecorded ==
    (resp.route \in {"output", "download"} /\ resp.code = 200)
        => /\ resp.req.job_id \in DOMAIN jobs
           /\ \E i \in DOMAIN heap[jobs[resp.req.job_id]].output_files :
                 heap[jobs[resp.req.job_id]].output_files[i] = resp.req.name

-----------------------------------------------------------------------------
(* The registry's specification: workers register, send heartbeats and     *)
(* fall silent while the clock advances and the cleanup thread sweeps.     *)

NodeIds == {"n1", "n2"}
RegStatuses == {"ready", "busy", "offline"}

Register ==
    /\ \E node_id \in NodeIds, status \in RegStatuses : register_node(node_id, status)
    /\ UNCHANGED <<sioVars, lockVars>>

Heartbeat ==
    /\ \E node_id \in NodeIds : update_heartbeat(node_id)
    /\ UNCHANGED <<sioVars, lockVars>>

Sweep == cleanup_stale_nodes /\ UNCHANGED <<sioVars, lockVars>>

NextRegistry ==
    \/ (Register /\ UNCHANGED <<jobVars, nodeVars, logVars, hostVars>>)
    \/ (Heartbeat /\ UNCHANGED <<jobVars, nodeVars, logVars, hostVars>>)
    \/ (Sweep /\ UNCHANGED <<jobVars, nodeVars, logVars, hostVars>>)
    \/ (Tick /\ UNCHANGED <<regVars, nodeVars, logVars, hostVars>>)

SpecRegistry == Init /\ [][NextRegistry]_vars

(* C4 as stated: a worker the sweep has set offline stays offline and out  *)
(* of the active listing until register_node is called for it, whatever    *)
(* heartbeats arrive in between.                                           *)
C4_OfflineUntilRegister ==
    \A n \in DOMAIN nodes :
        swept[n] \in {"swept", "beaten"}
            => (nodes[n].status = "offline" /\ n \notin ActiveNodes)

(* C4, amended: a worker the sweep has set offline stays offline and out   *)
(* of the active listing until register_node or update_heartbeat is called *)
(* for it; update_heartbeat makes it ready again.                          *)
C4_OfflineUntilRegisterOrHeartbeat ==
    \A n \in DOMAIN nodes :
        /\ swept[n] = "swept"
              => (nodes[n].status = "offline" /\ n \notin ActiveNodes)
        /\ swept[n] = "beaten" => nodes[n].status = "ready"

(* C4's case: one worker was swept offline and has stayed so for a cleanup *)
(* interval while another, swept too, was revived by a heartbeat.          *)
C4_Witness ==
    \E n, m \in DOMAIN nodes :
        /\ swept[n] = "swept"
        /\ nodes[n].last_heartbeat + heartbeat_timeout + CleanupInterval < now
        /\ swept[m] = "beaten" /\ m \in ActiveNodes

-----------------------------------------------------------------------------
(* The compute node's specification: clients open data channels, send key  *)
(* exchange messages and tasks in any order, close and disconnect.         *)

ChannelIds == {"s1", "s2"}

Offer == \E session_id \in ChannelIds : on_datachannel(session_id)

(* on_message of an open channel starts _handle_message with the         *)
(* session_id its closure captured.                                       *)
Message ==
    \E c \in DOMAIN channels, msg \in Messages : handle_message(channels[c], msg)

FinishTask == \E h \in handlers : finish_task(h)

Close == \E c \in DOMAIN channels : on_close(c)


NextNode ==
    \/ (Offer /\ UNCHANGED <<jobVars, now, regVars, logVars, hostVars>>)
    \/ (Message /\ UNCHANGED <<jobVars, now, regVars, logVars, hostVars>>)
    \/ (FinishTask /\ UNCHANGED <<jobVars, now, regVars, logVars, hostVars>>)
    \/ (Close /\ UNCHANGED <<jobVars, now, regVars, logVars, hostVars>>)
    \/ (disconnect /\ UNCHANGED <<jobVars, now, regVars, logVars, hostVars>>)

SpecNode == Init /\ [][NextNode]_vars

(* none = 0, remote-pubkey-known = 1, symmetric-key-established = 2 *)
Level(sd) ==
    IF sd.aes_key # None THEN 2
    ELSE IF sd.remote_public_key # None THEN 1
    ELSE 0

(* C5: while a session lives, no step lowers its secure-channel state. *)
C5_ChannelStateMonotone ==
    [][\A s \in DOMAIN sessions \cap DOMAIN sessions' :
          sessions'[s].id = sessions[s].id
              => Level(sessions'[s]) >= Level(sessions[s])]_vars

(* C19: once a message of a session has failed to decrypt or to unwrap   *)
(* its key, the session is out of the table and none of its channels is   *)
(* open, so that nothing more is processed for it.                        *)
C19_FailedSessionRemoved ==
    (nodeop.op = "message" /\ nodeop.failed)
        => /\ nodeop.session_id \notin DOMAIN sessions
           /\ ChannelsOf(nodeop.session_id) = {}

(* C20: after disconnect the session table is empty and every data        *)
(* channel is closed, so that no handler of a former session can fire.    *)
C20_DisconnectClosesAll ==
    nodeop.op = "disconnect" => (sessions = <<>> /\ channels = <<>>)

(* The signalling side of the node: offers open data channels, ICE        *)
(* candidates arrive for known and unknown session-ids, clients complete  *)
(* their key exchange, channels close and the signalling socket drops.    *)
Candidate ==
    \E session_id \in ChannelIds, bad \in BOOLEAN : on_ice_candidate(session_id, bad)

KeyExchange ==
    \E c \in DOMAIN channels :
        handle_message(channels[c], [type |-> "send_aes_key", valid |-> TRUE, key |-> "K"])

NextSignal ==
    \/ (Offer /\ UNCHANGED <<jobVars, now, regVars, logVars, hostVars>>)
    \/ (Candidate /\ UNCHANGED <<jobVars, now, regVars, logVars, hostVars>>)
    \/ (KeyExchange /\ UNCHANGED <<jobVars, now, regVars, logVars, hostVars>>)
    \/ (Close /\ UNCHANGED <<jobVars, now, regVars, logVars, hostVars>>)
    \/ (disconnect /\ UNCHANGED <<jobVars, now, regVars, logVars, hostVars>>)

SpecSignal == Init /\ [][NextSignal]_vars

(* C21: an ICE candidate for a session-id that is not in the session      *)
(* table raises nothing and leaves the table, every session in it, the    *)
(* open channels and the running handlers as they were.                   *)
C21_UnknownCandidateDropped ==
    [][(nodeop'.op = "ice_candidate" /\ nodeop'.session_id \notin DOMAIN sessions)
          => (~nodeop'.failed /\ UNCHANGED <<sessions, channels, handlers, offers>>)]_vars

(* C21's case: a candidate for an unknown session-id was dropped while    *)
(* another session, with its key established, is in the table.            *)
C21_Witness ==
    /\ nodeop.op = "ice_candidate" /\ ~nodeop.failed
    /\ nodeop.session_id \notin DOMAIN sessions
    /\ \E s \in DOMAIN sessions : sessions[s].aes_key # None

(* C22: a handler that runs for session-id s leaves every other session's *)
(* entry, open channels and running handlers as they were, and whatever   *)
(* it sends (key-exchange replies, the encrypted result) goes out on a    *)
(* channel of s.                                                          *)
C22_SessionsIsolated ==
    [][nodeop'.op \in {"message", "finish"} =>
          LET s == nodeop'.session_id
          IN  /\ \A r \in DOMAIN sessions \ {s} :
                    r \in DOMAIN sessions' /\ sessions'[r] = sessions[r]
              /\ \A c \in DOMAIN channels :
                    channels[c] # s => (c \in DOMAIN channels' /\ channels'[c] = channels[c])
              /\ \A h \in handlers : h.session_id # s => h \in handlers'
              /\ \A c \in nodeop'.sent :
                    c \in DOMAIN channels /\ channels[c] = s]_vars

(* C22's case: the result of a task of one session has just been sent     *)
(* while another session holds its own key and has a task of its own      *)
(* running.                                                               *)
C22_Witness ==
    /\ nodeop.op = "finish" /\ nodeop.sent # {}
    /\ \E r \in DOMAIN sessions :
          /\ r # nodeop.session_id
          /\ sessions[r].aes_key # None
          /\ \E h \in handlers : h.session_id = r /\ h.id = sessions[r].id

-----------------------------------------------------------------------------
(* Properties of the registry's operations.  A step that leaves the clock  *)
(* alone and ends with regop naming an operation is a call of it.          *)

Registered(n) == regop'.op = "register" /\ regop'.node_id = n /\ now' = now
Beaten(n) == regop'.op = "heartbeat" /\ regop'.node_id = n /\ now' = now
SweepRan == regop'.op = "sweep" /\ now' = now

(* Every entry but n's is the same before and after the step. *)
OthersUnchanged(n) ==
    /\ DOMAIN nodes' \ {n} = DOMAIN nodes \ {n}
    /\ \A m \in DOMAIN nodes \ {n} : nodes'[m] = nodes[m]

(* C13 as stated: right after a register the entry has status ready,       *)
(* whatever status the descriptor carried, and both timestamps are the     *)
(* time of the call.                                                       *)
C13_RegisterSetsReady ==
    [][\A n \in NodeIds :
          Registered(n) => (n \in DOMAIN nodes' /\ nodes'[n] = Row("ready", now, now))]_vars

(* C13, amended: right after a register the registry holds one entry for   *)
(* the worker-id, with the status the descriptor carried and registered-at *)
(* = last-heartbeat = the time of the call, also when the worker-id was    *)
(* registered before; every other entry is unchanged.                      *)
C13_RegisterSetsDescriptorStatus ==
    [][\A n \in NodeIds :
          Registered(n) =>
              /\ n \in DOMAIN nodes'
              /\ nodes'[n] = Row(regop'.status, now, now)
              /\ regop'.ok
              /\ OthersUnchanged(n)]_vars

(* C13's case: a worker registered earlier has registered again, later,    *)
(* with a descriptor whose status is not ready.                            *)
C13_Witness ==
    /\ regop.op = "register" /\ regop.again /\ regop.status = "busy"
    /\ regop.node_id \in DOMAIN nodes
    /\ nodes[regop.node_id] = Row("busy", now, now)
    /\ now > 0
    /\ Cardinality(DOMAIN nodes) = 2

(* C14: a heartbeat for an existing entry sets its last-heartbeat to now   *)
(* and its status to ready and changes nothing else in the registry; a     *)
(* heartbeat for a worker-id with no entry returns False and leaves the    *)
(* registry as it was.                                                     *)
C14_HeartbeatFrame ==
    [][\A n \in NodeIds :
          Beaten(n) =>
              IF n \in DOMAIN nodes
              THEN /\ regop'.ok
                   /\ n \in DOMAIN nodes'
                   /\ nodes'[n] = Row("ready", nodes[n].registered_at, now)
                   /\ OthersUnchanged(n)
              ELSE /\ ~regop'.ok
                   /\ nodes' = nodes]_vars

(* C14's case: a heartbeat has refreshed a worker the sweep had set        *)
(* offline, beside another entry that is still offline.                    *)
C14_Witness ==
    /\ regop.op = "heartbeat" /\ regop.ok
    /\ swept[regop.node_id] = "beaten"
    /\ nodes[regop.node_id].last_heartbeat = now
    /\ nodes[regop.node_id].registered_at < now
    /\ \E m \in DOMAIN nodes : m # regop.node_id /\ nodes[m].status = "offline"

(* The heartbeat age of an entry. *)
Age(n) == now - nodes[n].last_heartbeat

C18_HeartbeatIdempotent ==
    [][\A n \in NodeIds :
          (Beaten(n) /\ regop'.again) =>
              /\ regop'.ok = regop.ok
              /\ DOMAIN nodes' = DOMAIN nodes
              /\ \A m \in DOMAIN nodes :
                    nodes'[m] = IF m = n
                                THEN [nodes[m] EXCEPT
                                        !.last_heartbeat = nodes'[m].last_heartbeat]
                                ELSE nodes[m]]_vars

(* C18's case: two heartbeats in a row for one worker, the second later    *)
(* than the first.                                                         *)
C18_Witness ==
    /\ regop.op = "heartbeat" /\ regop.again /\ regop.ok
    /\ nodes[regop.node_id].last_heartbeat = now
    /\ nodes[regop.node_id].registered_at + CleanupInterval < now
    /\ swept[regop.node_id] = "beaten"

(* C15: the active-only listing holds exactly the entries whose heartbeat  *)
(* age does not exceed the timeout, and every entry is either in that      *)
(* listing or past the cutoff the sweep uses.                              *)
C15_ActiveListingBoundary ==
    \A n \in DOMAIN nodes :
        /\ n \in ActiveNodes <=> Age(n) <= heartbeat_timeout
        /\ n \in ActiveNodes \/ nodes[n].last_heartbeat < now - heartbeat_timeout

-----------------------------------------------------------------------------
(* The registry with its cleanup thread on schedule: cleanup_loop sweeps   *)
(* once per cleanup interval, so the clock does not pass an instant before *)
(* the sweep due at it has run.                                            *)

TickAfterSweep ==
    /\ regop.op = "sweep"
    /\ Tick
    /\ regop' = NoCall
    /\ UNCHANGED <<nodes, swept, sioVars, lockVars>>

NextSweep ==
    \/ (Register /\ UNCHANGED <<jobVars, nodeVars, logVars, hostVars>>)
    \/ (Heartbeat /\ UNCHANGED <<jobVars, nodeVars, logVars, hostVars>>)
    \/ (Sweep /\ UNCHANGED <<jobVars, nodeVars, logVars, hostVars>>)
    \/ (TickAfterSweep /\ UNCHANGED <<nodeVars, logVars, hostVars>>)

SpecSweep == Init /\ [][NextSweep]_vars

-----------------------------------------------------------------------------
(* The job log and the event stream (server.py add_log and the emits of    *)
(* the two task functions).  A line is told from the next by the task that *)
(* wrote it and its text; an event keeps the task that emitted it, its     *)
(* name, the status it carries and, for a job_log of add_log, its line.    *)
(* cell_output events are filed under the job-id of their cell's job.      *)

Line(t, text) == [by |-> t, text |-> text]
Event(t, event, status, log) ==
    [by |-> t, event |-> event, status |-> status, log |-> log]

(* The log lists and the event streams, as one step's calls thread them.   *)
Out(l, e) == [logs |-> l, events |-> e]

LogsOf(o) == IF o \in DOMAIN logs THEN logs[o] ELSE <<>>
StreamOf(ev, job_id) == IF job_id \in DOMAIN ev THEN ev[job_id] ELSE <<>>

(* socketio.emit(event, {...}, to=None) *)
emit(x, t, job_id, event, status, log) ==
    Out(x.logs,
        (job_id :> Append(StreamOf(x.events, job_id), Event(t, event, status, log)))
            @@ x.events)

(* jobs[job_id]['logs'].append(message): the dict the table binds now *)
append(x, t, job_id, text) ==
    LET o == jobs[job_id]
        old == IF o \in DOMAIN x.logs THEN x.logs[o] ELSE <<>>
    IN  Out((o :> Append(old, Line(t, text))) @@ x.logs, x.events)

(* add_log(job_id, message) *)
add_log(x, t, job_id, text) ==
    IF job_id \notin DOMAIN jobs THEN x
    ELSE LET a == append(x, t, job_id, text)
             b == emit(a, t, job_id, "job_log", "", Some(Line(t, text)))
         IN  IF heap[jobs[job_id]].mode = "notebook" /\ heap[jobs[job_id]].cell_id # None
             THEN emit(b, t, job_id, "cell_output", "running", None)
             ELSE b

(* add_log whose socketio.emit raises: the line is in the list, unsent *)
add_log_raising(x, t, job_id, text) ==
    IF job_id \notin DOMAIN jobs THEN x ELSE append(x, t, job_id, text)

(* add_log called for each text of a sequence, in order *)
RECURSIVE add_logs(_, _, _, _)
add_logs(x, t, job_id, texts) ==
    IF texts = <<>> THEN x
    ELSE add_logs(add_log(x, t, job_id, texts[1]), t, job_id,
                  SubSeq(texts, 2, Len(texts)))

Write(x) == logs' = x.logs /\ events' = x.events

(* The opening of a task: execute_job_async emits job_status running, logs *)
(* the start and, for a script, the dependency check; the cell task logs   *)
(* its attestation, emits cell_output, logs the start and emits again.     *)
(* When the step raised, it was at the first bare emit or at an add_log.   *)
LogBegin(t) ==
    /\ Begin(t)
    /\ LET j == tasks[t].job_id
           x == Out(logs, events)
       IN  IF tasks[t].kind = "job"
           THEN LET e1 == emit(x, t, j, "job_status", "running", None)
                    a1 == add_log(e1, t, j, "Job started")
                    a2 == IF heap[jobs[j]].mode = "ai"
                          THEN add_log(a1, t, j, "[DEPENDENCY]") ELSE a1
                IN  IF tasks'[t].pc = "exec"
                    THEN Write(a2)
                    ELSE \/ Write(x)
                         \/ Write(add_log_raising(e1, t, j, "Job started"))
           ELSE LET a1 == add_log(x, t, j, "[ZERO-TRUST]")
                    e1 == emit(a1, t, j, "cell_output", "running", None)
                    a2 == add_log(e1, t, j, "Notebook cell execution started")
                    e2 == emit(a2, t, j, "cell_output", "running", None)
                IN  IF tasks'[t].pc = "exec"
                    THEN Write(e2)
                    ELSE \/ Write(add_log_raising(x, t, j, "[ZERO-TRUST]"))
                         \/ Write(a1)

(* The lines execute_python_code logs around a payload that exits. *)
ExecLines(r) ==
    <<"[EXECUTE]", "stdout">> \o (IF r.stderr THEN <<"stderr">> ELSE <<>>)

(* The execution function of a script or cell whose payload exits: its     *)
(* lines, or the one line whose emit raised; the cell task answers a       *)
(* raise with a cell_output of status failed.                              *)
LogExec(t, b, fault) ==
    /\ b.kind = "exit"
    /\ tasks[t].pc = "exec"
    /\ heap[tasks[t].job].mode \in {"ai", "notebook"}
    /\ Exec(t, b, fault)
    /\ LET j == tasks[t].job_id
           x == Out(logs, events)
           r == RunMode(heap[tasks[t].job], b, fault, env)
       IN  IF ~r.raised
           THEN Write(add_logs(x, t, j, ExecLines(r)))
           ELSE IF tasks[t].kind = "job"
           THEN Write(add_log_raising(x, t, j, "[EXECUTE]"))
           ELSE Write(emit(add_log_raising(x, t, j, "[EXECUTE]"),
                           t, j, "cell_output", "failed", None))

(* The lines execute_job_async logs before its final emit. *)
ClosingLines(res) ==
    (IF res.stdout /\ res.exit_code # 0 THEN <<"[STDOUT]">> ELSE <<>>)
        \o (IF res.stderr THEN <<"[STDERR]">> ELSE <<>>)
        \o <<"Job completed">>

(* The closing of a task.  execute_job_async logs its closing lines and    *)
(* then emits job_status with job['status']; the cell task emits           *)
(* cell_output with the final status, emits job_log with the whole list,   *)
(* and then logs two more lines.                                           *)
LogPost(t) ==
    /\ Post(t)
    /\ LET j == tasks[t].job_id
           x == Out(logs, events)
           res == tasks[t].result
       IN  IF tasks[t].kind = "job"
           THEN LET a == add_logs(x, t, j, ClosingLines(res))
                    e == emit(a, t, j, "job_status", heap[tasks[t].job].status, None)
                IN  IF tasks'[t].pc = "done"
                    THEN Write(e)
                    ELSE \/ Write(add_log_raising(x, t, j, ClosingLines(res)[1]))
                         \/ Write(a)
           ELSE LET e1 == emit(x, t, j, "cell_output", StatusOf(res.exit_code), None)
                    e2 == emit(e1, t, j, "job_log", "", None)
                    a1 == add_log(e2, t, j, "Cell completed")
                    a2 == add_log(a1, t, j, "[SANDBOX] Sandbox Destroyed Successfully")
                IN  IF tasks'[t].pc = "done"
                    THEN Write(a2)
                    ELSE \/ Write(x)
                         \/ Write(add_log_raising(e2, t, j, "Cell completed"))

(* The except block of a task: execute_job_async logs the error and emits  *)
(* job_status failed, the cell task emits cell_output failed; what raises  *)
(* here leaves the task.                                                   *)
LogHandler(t) ==
    /\ Handler(t)
    /\ LET j == tasks[t].job_id
           x == Out(logs, events)
       IN  IF tasks[t].kind = "job"
           THEN \/ Write(emit(add_log(x, t, j, "[ERROR]"), t, j, "job_status", "failed", None))
                \/ Write(add_log(x, t, j, "[ERROR]"))
                \/ Write(add_log_raising(x, t, j, "[ERROR]"))
           ELSE \/ Write(emit(x, t, j, "cell_output", "failed", None))
                \/ Write(x)

LogStep(t) ==
    \/ LogBegin(t)
    \/ (SetExit(t) /\ UNCHANGED logVars)
    \/ (SetStatus(t) /\ UNCHANGED logVars)
    \/ (SetFiles(t) /\ UNCHANGED logVars)
    \/ LogPost(t)
    \/ LogHandler(t)

-----------------------------------------------------------------------------
(* The specification of the log stream: script jobs with and without a     *)
(* job-id of the client's, notebook cells, payloads that exit 0 and 1, and *)
(* an event channel that may raise.                                        *)

LogBehaviours == {b \in Behaviours : b.kind = "exit" /\ b.out}

SubmitLog ==
    \E job_id \in JobIds :
        /\ Len(heap) < MaxSubmits
        /\ execute_job("ai", job_id, <<>>)

SubmitCellLog ==
    /\ Len(heap) < MaxSubmits
    /\ execute_notebook_cell(Some("s1"), "c1")

RunLog ==
    \E t \in DOMAIN tasks :
        \/ LogStep(t)
        \/ \E b \in LogBehaviours, fault \in LifeFaults : LogExec(t, b, fault)

NextLog ==
    \/ (SubmitLog /\ UNCHANGED <<regVars, nodeVars, logVars, hostVars>>)
    \/ (SubmitCellLog /\ UNCHANGED <<regVars, nodeVars, logVars, hostVars>>)
    \/ (RunLog /\ UNCHANGED <<regVars, nodeVars, hostVars>>)

SpecLog == Init /\ [][NextLog]_vars

(* An event that tells a job's final status. *)
FinalStatus(e) == e.event \in {"job_status", "cell_output"} /\ e.status \in Terminal

(* C23: in the stream of a job-id, no log line follows the final status    *)
(* event of the task that emitted it.                                      *)
C23_NoLogAfterFinalStatus ==
    \A j \in DOMAIN events :
        \A i, k \in DOMAIN events[j] :
            (i < k /\ FinalStatus(events[j][i]) /\ events[j][k].by = events[j][i].by)
                => events[j][k].log = None

(* The log lines streamed for a job-id: the lines of its job_log events. *)
RECURSIVE LinesOf(_)
LinesOf(stream) ==
    IF stream = <<>> THEN <<>>
    ELSE (IF stream[1].event = "job_log" /\ stream[1].log # None
          THEN <<stream[1].log[1]>> ELSE <<>>)
             \o LinesOf(SubSeq(stream, 2, Len(stream)))

(* C24: once a job has ended and no task works on it any more, the lines   *)
(* streamed for its job-id are the lines of its log list, in order.        *)
C24_StreamEqualsList ==
    \A j \in DOMAIN jobs :
        (JobStatus(j) \in Terminal /\ Finished(jobs[j]))
            => LinesOf(StreamOf(events, j)) = LogsOf(jobs[j])

(* C31: a job that ended failed because the engine raised (no exit code    *)
(* was ever recorded) has the error line as the last entry of its log      *)
(* list, once no task works on it any more.                                *)
C31_ErrorInLogTail ==
    \A o \in DOMAIN heap :
        (heap[o].status = "failed" /\ heap[o].exit_code = None /\ Finished(o))
            => /\ LogsOf(o) # <<>>
               /\ LogsOf(o)[Len(LogsOf(o))].text = "[ERROR]"

-----------------------------------------------------------------------------
(* The registration side of the server: workers register and send          *)
(* heartbeats over Socket.IO while the store sometimes fails and the       *)
(* cleanup thread sweeps.                                                  *)

Sids == {"sid1", "sid2"}

Registration ==
    \E sid \in Sids, node_id \in NodeIds, db_fails \in BOOLEAN, emit_raises \in BOOLEAN :
        handle_compute_node_registration(sid, node_id, "ready", db_fails, emit_raises)

HeartbeatEvent == \E node_id \in NodeIds : handle_node_heartbeat(node_id)

NextRegistration ==
    \/ (Registration /\ UNCHANGED <<jobVars, nodeVars, logVars, hostVars>>)
    \/ (HeartbeatEvent /\ UNCHANGED <<jobVars, nodeVars, logVars, hostVars>>)
    \/ (Sweep /\ UNCHANGED <<jobVars, nodeVars, logVars, hostVars>>)

SpecRegistration == Init /\ [][NextRegistration]_vars

(* C32: when the store failed inside register_node, the registration       *)
(* handler emitted an error, and neither the 'registered' reply nor the    *)
(* announcement of the worker to the other clients.                        *)
C32_StoreFailureSurfaces ==
    (emitted.handler = "register_compute_node"
        /\ regop.op = "register" /\ regop.node_id = emitted.node_id /\ ~regop.ok)
        => emitted.events = <<"error">>

(* C33: the log list of every notebook-cell job, once it has an entry,     *)
(* starts with the attestation line.                                       *)
C33_AttestationFirst ==
    \A o \in DOMAIN heap :
        (heap[o].mode = "notebook" /\ LogsOf(o) # <<>>)
            => LogsOf(o)[1].text = "[ZERO-TRUST]"

-----------------------------------------------------------------------------
(* What a payload finds where it runs.  execute_python_code starts every   *)
(* container with `-v /tmp:/tmp:rw', the host's /tmp mounted writable, and *)
(* its local branches run the payload on the host itself: in both cases    *)
(* the payload's /tmp is the host's.  A payload may leave a file there.    *)

(* The launch of a payload with its surroundings: Exec, the files of       *)
(* earlier payloads that this one finds in /tmp, and the file it leaves.   *)
SandboxExec(t, b, fault, leaves) ==
    /\ tasks[t].pc = "exec"
    /\ Exec(t, b, fault)
    /\ LET r == RunMode(heap[tasks[t].job], b, fault, env)
           ran == ~r.raised /\ r.docker + r.host > 0
       IN  /\ seen' = IF ran THEN (t :> tmp) @@ seen ELSE seen
           /\ tmp' = IF ran /\ leaves THEN tmp \cup {t} ELSE tmp

(* The notebook's specification: cells of one session are submitted and    *)
(* run one after the other or together.                                    *)
NotebookCells == {"c1", "c2"}

SubmitCells ==
    \E cell_id \in NotebookCells :
        /\ Len(heap) < MaxSubmits
        /\ execute_notebook_cell(Some("s1"), cell_id)

RunCells ==
    \E t \in DOMAIN tasks :
        \/ (Step(t) /\ UNCHANGED hostVars)
        \/ \E b \in LifeBehaviours, fault \in LifeFaults, leaves \in BOOLEAN :
              SandboxExec(t, b, fault, leaves)

NextCells ==
    \/ (SubmitCells /\ UNCHANGED <<regVars, nodeVars, logVars, hostVars>>)
    \/ (RunCells /\ UNCHANGED <<regVars, nodeVars, logVars>>)

SpecCells == Init /\ [][NextCells]_vars

(* The session of the cell a task runs. *)
SessionOf(t) == heap[tasks[t].job].session_id

(* C34: the sandbox of a cell starts with nothing that an earlier cell of  *)
(* the same session left behind.                                           *)
C34_NoStateBetweenCells ==
    \A t \in DOMAIN seen :
        \A u \in seen[t] : u # t => SessionOf(u) # SessionOf(t)

(* C35: every cell_output event comes from the task of a notebook cell,    *)
(* and every such task that has ended has also emitted job_status running  *)
(* and a job_status with the terminal status.                              *)
C35_CellOutputBesideJobStatus ==
    /\ \A j \in DOMAIN events : \A i \in DOMAIN events[j] :
          events[j][i].event = "cell_output" => tasks[events[j][i].by].kind = "cell"
    /\ \A t \in DOMAIN tasks :
          (tasks[t].kind = "cell" /\ tasks[t].pc = "done")
              => \E i, k \in DOMAIN StreamOf(events, tasks[t].job_id) :
                    LET e == events[tasks[t].job_id]
                    IN  /\ i < k
                        /\ e[i].by = t /\ e[i].event = "job_status" /\ e[i].status = "running"
                        /\ e[k].by = t /\ e[k].event = "job_status" /\ e[k].status \in Terminal

-----------------------------------------------------------------------------
(* The registry under its lock: two request threads and the cleanup thread *)
(* call the registry's operations at any time.                             *)

CallOp ==
    \E th \in Threads, op \in RequestOps \cup {"cleanup_stale_nodes"}, node_id \in NodeIds :
        call(th, op, node_id)

Acquire == \E th \in Threads : acquire(th)

Statement == \E th \in Threads : statement(th)

Release == \E th \in Threads : release(th)

NextLock ==
    \/ (CallOp /\ UNCHANGED <<jobVars, nodeVars, logVars, hostVars>>)
    \/ (Acquire /\ UNCHANGED <<jobVars, nodeVars, logVars, hostVars>>)
    \/ (Statement /\ UNCHANGED <<jobVars, nodeVars, logVars, hostVars>>)
    \/ (Release /\ UNCHANGED <<jobVars, nodeVars, logVars, hostVars>>)

SpecLock == Init /\ [][NextLock]_vars

InSection(th) == threads[th].pc \in {"db", "exit"}

(* C36: at most one thread is inside a database section of the registry,   *)
(* and it holds the lock; what a read returned is what the table holds for *)
(* as long as the reader is inside.                                        *)
C36_MutualExclusion ==
    /\ \A a, b \in Threads : (InSection(a) /\ InSection(b)) => a = b
    /\ \A a \in Threads : InSection(a) => lock = Some(a)
    /\ \A a \in Threads :
          (threads[a].pc = "exit" /\ threads[a].op \in Reads)
              => threads[a].result = ReadOf(threads[a].op, threads[a].node_id)

(* C36's case: a request thread is inside get_all_nodes, past its read,    *)
(* while the other request thread waits at the lock with a register_node   *)
(* and the cleanup thread waits with its sweep, and the table has a row.   *)
C36_Witness ==
    /\ threads["req1"].pc = "exit" /\ threads["req1"].op = "get_all_nodes"
    /\ threads["req2"].pc = "lock" /\ threads["req2"].op = "register_node"
    /\ threads["cleanup"].pc = "lock"
    /\ nodes # <<>>

(* C37: a message step changes a session's symmetric key only when the     *)
(* client's public key is stored in that session, and starts a task only   *)
(* in a session whose symmetric key is established.                        *)
C37_BootstrapOrder ==
    [][nodeop'.op = "message" =>
          LET s == nodeop'.session_id
          IN  /\ sessions'[s].aes_key # sessions[s].aes_key
                    => sessions[s].remote_public_key # None
              /\ handlers' # handlers => sessions[s].aes_key # None]_vars

-----------------------------------------------------------------------------
(* The compute node with tasks that can fail after the sandbox: as         *)
(* SpecNode, and the encryption of a result may raise.                     *)

FinishFails == \E h \in handlers : finish_task_except(h)

NextResult ==
    \/ (Offer /\ UNCHANGED <<jobVars, now, regVars, logVars, hostVars>>)
    \/ (Message /\ UNCHANGED <<jobVars, now, regVars, logVars, hostVars>>)
    \/ (FinishTask /\ UNCHANGED <<jobVars, now, regVars, logVars, hostVars>>)
    \/ (FinishFails /\ UNCHANGED <<jobVars, now, regVars, logVars, hostVars>>)
    \/ (Close /\ UNCHANGED <<jobVars, now, regVars, logVars, hostVars>>)
    \/ (disconnect /\ UNCHANGED <<jobVars, now, regVars, logVars, hostVars>>)

SpecResult == Init /\ [][NextResult]_vars

(* C38: whatever the end of a task sends is of type encrypted_result and   *)
(* sealed under the AES key of the task's session, and a task whose end    *)
(* raised has sent nothing.                                                *)
C38_ResultOnlyEncrypted ==
    [][nodeop'.op = "finish" =>
          /\ \A m \in nodeop'.msgs :
                /\ m.type = "encrypted_result"
                /\ m.sealed # None
                /\ \E h \in handlers \ handlers' : m.sealed = h.aes_key
          /\ nodeop'.failed => nodeop'.msgs = {}]_vars

(* C38's case: a result has just been sent, sealed, on its channel, while  *)
(* another task waits for its sandbox.                                     *)
C38_Witness ==
    /\ nodeop.op = "finish" /\ ~nodeop.failed
    /\ \E m \in nodeop.msgs : m.type = "encrypted_result" /\ m.sealed = Some("K")
    /\ handlers # {}

(* GET /status/<job_id> for a job-id of the table: what it returns of the  *)
(* job dict (the log list is short of the route's 100-line cut).           *)
get_job_status(job_id) ==
    LET job == heap[jobs[job_id]]
    IN  [status |-> job.status, runtime |-> job.runtime,
         exit_code |-> job.exit_code, logs |-> LogsOf(jobs[job_id]),
         output_files |-> job.output_files]

(* C39: once the status route returns completed or failed for a job, no    *)
(* step changes the log list, the artifact list, the exit code or the      *)
(* runtime it returns for that job.                                        *)
C39_TerminalSnapshotFinal ==
    [][\A j \in DOMAIN jobs :
          (get_job_status(j).status \in Terminal /\ jobs'[j] = jobs[j])
              => /\ get_job_status(j).logs' = get_job_status(j).logs
                 /\ get_job_status(j).output_files' = get_job_status(j).output_files
                 /\ get_job_status(j).exit_code' = get_job_status(j).exit_code
                 /\ get_job_status(j).runtime' = get_job_status(j).runtime]_vars

(* C40: the end of a task finds its channel open and its session in the    *)
(* table, and leaves no session in the table whose channel is closed.      *)
C40_SessionRemovedOnce ==
    [][nodeop'.op = "finish" =>
          /\ \A h \in handlers \ handlers' :
                /\ h.id \in DOMAIN channels
                /\ h.session_id \in DOMAIN sessions
          /\ \A s \in DOMAIN sessions' : sessions'[s].id \in DOMAIN channels']_vars

=============================================================================
